---- MODULE Spec2Model ----
(***************************************************************************)
(* Model of gpt_search.py: a question is answered by asking a language     *)
(* model for search topics, resolving one web page per topic, reducing     *)
(* the collected background to the model's token ceiling (shorten, then    *)
(* summarize) and asking the language model for the final answer.  Every   *)
(* external call (gpt, ddg_top_hit, fetch_url_and_extract_info) goes       *)
(* through joblib's memory.cache, whose store outlives the process.        *)
(*                                                                         *)
(* Python strings are TLA+ strings; s[:n] is SubSeq(s, 1, n).              *)
(***************************************************************************)
EXTENDS Integers, Sequences, FiniteSets, TLC

(***************************************************************************)
(* Bounds of the model.                                                    *)
(***************************************************************************)
\* Ceilings of the two model profiles, scaled down from the source's 8192
\* and 4097 tokens so that texts of a few dozen characters exceed them.
CeilingGpt4 == 40
CeilingGpt35 == 20
\* Width of one token of the stand-in tokenizer, in characters.
CharsPerToken == 2
\* Number of processes (runs of main) sharing the cache directory.
MaxRuns == 2
\* Number of failures of the outside world (an API error, a search that
\* raises, a fetch that fails) over all processes.
MaxFaults == 1

(***************************************************************************)
(* Python values.                                                          *)
(***************************************************************************)
\* Python's None.  Texts are TLA+ strings and TLC cannot compare a string
\* with a value of another type, so None is a reserved string that no page
\* text, title, topic or completion equals.
None == "<NoneType>"

\* A truth test that takes the empty string for true.
TruthyUnlessNone(x) == x # None

\* bool(x) for x a str or None.
Truthy(x) == x # None /\ x # ""

\* format(x) inside an f-string.
Str(x) == IF x = None THEN "None" ELSE x

\* s[i] for a 1-based index of a string.
Ch(s, i) == SubSeq(s, i, i)

\* s[:n]
Prefix(s, n) == SubSeq(s, 1, n)

IsPrefix(p, s) == Len(p) <= Len(s) /\ SubSeq(s, 1, Len(p)) = p

(***************************************************************************)
(* Model profiles and the token accountant.                                *)
(***************************************************************************)
Models == {"gpt-4", "gpt-3.5-turbo"}

max_token_count == [m \in Models |-> IF m = "gpt-4" THEN CeilingGpt4 ELSE CeilingGpt35]

\* encoding.encode(text): tiktoken is an external library; its stand-in
\* cuts the text into consecutive tokens of CharsPerToken characters (the
\* last one may be shorter), so the empty text has no token and every
\* non-empty text has at least one.
encode(text) ==
    [k \in 1..((Len(text) + CharsPerToken - 1) \div CharsPerToken) |->
        SubSeq(text, (k - 1) * CharsPerToken + 1,
               IF k * CharsPerToken < Len(text) THEN k * CharsPerToken ELSE Len(text))]

token_count(text) == Len(encode(text)) * 2

(***************************************************************************)
(* Background: an insertion-ordered dict, kept as the sequence of its      *)
(* items [subject, contents].                                              *)
(***************************************************************************)
HasKey(bg, subject) == \E k \in 1..Len(bg) : bg[k].subject = subject

\* background[subject] = contents: an existing key keeps its position.
DictSet(bg, subject, contents) ==
    IF HasKey(bg, subject)
    THEN [k \in 1..Len(bg) |->
             IF bg[k].subject = subject
             THEN [subject |-> subject, contents |-> contents] ELSE bg[k]]
    ELSE Append(bg, [subject |-> subject, contents |-> contents])

RECURSIVE Join(_, _)
Join(sep, parts) ==
    IF parts = <<>> THEN ""
    ELSE IF Len(parts) = 1 THEN parts[1]
    ELSE parts[1] \o sep \o Join(sep, Tail(parts))

background_text(bg) ==
    Join("\n\n", [k \in 1..Len(bg) |-> bg[k].subject \o ":\n" \o Str(bg[k].contents)])

(***************************************************************************)
(* json.loads, for the JSON texts a completion is drawn from: a string     *)
(* literal without escapes, an integer literal, an array of string         *)
(* literals, and an object with one member.  Any other text raises         *)
(* JSONDecodeError.  The result records the kind of Python value and what  *)
(* iterating over it yields (list: its elements, str: its characters,      *)
(* dict: its keys; an int is not iterable).                                *)
(***************************************************************************)
RECURSIVE LStrip(_)
LStrip(s) == IF Len(s) > 0 /\ Ch(s, 1) = " " THEN LStrip(SubSeq(s, 2, Len(s))) ELSE s

RECURSIVE RStrip(_)
RStrip(s) == IF Len(s) > 0 /\ Ch(s, Len(s)) = " " THEN RStrip(SubSeq(s, 1, Len(s) - 1)) ELSE s

Strip(s) == LStrip(RStrip(s))

\* The pieces of s between the occurrences of sep that are outside quotes.
RECURSIVE SplitTop(_, _, _, _, _)
SplitTop(s, sep, i, start, inq) ==
    IF i > Len(s) THEN <<SubSeq(s, start, Len(s))>>
    ELSE IF Ch(s, i) = "\"" THEN SplitTop(s, sep, i + 1, start, ~inq)
    ELSE IF Ch(s, i) = sep /\ ~inq
         THEN <<SubSeq(s, start, i - 1)>> \o SplitTop(s, sep, i + 1, i + 1, FALSE)
    ELSE SplitTop(s, sep, i + 1, start, inq)

IsStrLit(s) ==
    /\ Len(s) >= 2
    /\ Ch(s, 1) = "\"" /\ Ch(s, Len(s)) = "\""
    /\ \A i \in 2..(Len(s) - 1) : Ch(s, i) \notin {"\"", "\\", "\n"}

StrVal(s) == SubSeq(s, 2, Len(s) - 1)

Digits == {"0", "1", "2", "3", "4", "5", "6", "7", "8", "9"}

IsIntLit(s) ==
    /\ Len(s) >= 1
    /\ \A i \in 1..Len(s) : Ch(s, i) \in Digits
    /\ (Len(s) > 1 => Ch(s, 1) # "0")

Bracketed(s, open, close) == Len(s) >= 2 /\ Ch(s, 1) = open /\ Ch(s, Len(s)) = close

Inner(s) == Strip(SubSeq(s, 2, Len(s) - 1))

ArrayPieces(s) == LET p == SplitTop(Inner(s), ",", 1, 1, FALSE) IN [k \in 1..Len(p) |-> Strip(p[k])]

IsStrArray(s) ==
    /\ Bracketed(s, "[", "]")
    /\ (Inner(s) # "" => \A k \in 1..Len(ArrayPieces(s)) : IsStrLit(ArrayPieces(s)[k]))

ArrayVal(s) ==
    IF Inner(s) = "" THEN <<>>
    ELSE [k \in 1..Len(ArrayPieces(s)) |-> StrVal(ArrayPieces(s)[k])]

MemberPieces(s) == LET p == SplitTop(Inner(s), ":", 1, 1, FALSE) IN [k \in 1..Len(p) |-> Strip(p[k])]

IsObject(s) ==
    /\ Bracketed(s, "{", "}")
    /\ \/ Inner(s) = ""
       \/ /\ Len(MemberPieces(s)) = 2
          /\ IsStrLit(MemberPieces(s)[1])
          /\ LET v == MemberPieces(s)[2] IN IsStrLit(v) \/ IsIntLit(v) \/ IsStrArray(v)

ObjectKeys(s) == IF Inner(s) = "" THEN <<>> ELSE <<StrVal(MemberPieces(s)[1])>>

Chars(s) == [k \in 1..Len(s) |-> Ch(s, k)]

json_loads(text) ==
    LET s == Strip(text) IN
    IF IsStrArray(s) THEN [ok |-> TRUE, kind |-> "list", iterable |-> TRUE, items |-> ArrayVal(s)]
    ELSE IF IsStrLit(s) THEN [ok |-> TRUE, kind |-> "str", iterable |-> TRUE, items |-> Chars(StrVal(s))]
    ELSE IF IsObject(s) THEN [ok |-> TRUE, kind |-> "dict", iterable |-> TRUE, items |-> ObjectKeys(s)]
    ELSE IF IsIntLit(s) THEN [ok |-> TRUE, kind |-> "int", iterable |-> FALSE, items |-> <<>>]
    ELSE [ok |-> FALSE, kind |-> "error", iterable |-> FALSE, items |-> <<>>]

(***************************************************************************)
(* str(n) for a natural number and strftime('%A, %B %d, %Y').               *)
(***************************************************************************)
DigitOf(d) == Ch("0123456789", d + 1)

RECURSIVE ToStr(_)
ToStr(n) == IF n < 10 THEN DigitOf(n) ELSE ToStr(n \div 10) \o DigitOf(n % 10)

\* %d: the day of the month, zero-padded to two digits.
Pad2(n) == IF n < 10 THEN "0" \o ToStr(n) ELSE ToStr(n)

strftime(d) == d.weekday \o ", " \o d.month \o " " \o Pad2(d.day) \o ", " \o ToStr(d.year)

(***************************************************************************)
(* The world outside the program: what the user asks, what the web and     *)
(* the language model may answer.                                          *)
(***************************************************************************)
Questions == {"Who won?"}

Dates == {[weekday |-> "Friday", month |-> "May", day |-> 5, year |-> 2023]}

\* Completions the language model may give to the topic-derivation prompt:
\* three topics, a duplicated topic, four topics, no topic, prose, a JSON
\* object, a JSON number.
TopicResponses ==
    { "[\"a\", \"b\", \"c\"]",
      "[\"a\", \"a\", \"b\"]",
      "[\"a\", \"b\", \"c\", \"d\"]",
      "[]",
      "Sure! a, b, c",
      "{\"a\": [\"b\", \"c\"]}",
      "7" }

TinyText == "ok"
MidText == "0123456789mnopqrst"
LongText == "abcdefghijklmnopqrstuvwxyzABCDEFGHIJKLMNOPQRS"

\* What a successful fetch of a URL extracts: (title, text).
Page(url) ==
    CASE url = "u1" -> <<"T1", "">>
      [] url = "u2" -> <<None, MidText>>
      [] url = "u3" -> <<"T3", LongText>>
      [] OTHER      -> <<"T4", TinyText>>

\* What ddg(topic) may return: a list of results, each with its 'href'.
ResultLists ==
    { <<>>,
      <<[href |-> "u1"], [href |-> "u2"], [href |-> "u3"]>>,
      <<[href |-> "u4"]>> }

\* The topics for which ddg may return any of these lists; for every other
\* topic it returns the list of three results.
OpenTopics == {"a", "b", "c"}

ResultListsFor(topic) ==
    IF topic \in OpenTopics THEN ResultLists
    ELSE {<<[href |-> "u1"], [href |-> "u2"], [href |-> "u3"]>>}

\* Completions the language model may give to a summarization prompt for
\* the text: a three-character summary (shorter than MidText and LongText,
\* longer than TinyText) and the text itself.
Summaries(text) == {"sum", text}

Answers == {"1989."}

(***************************************************************************)
(* State.                                                                  *)
(***************************************************************************)
VARIABLES
    cache,            \* joblib's store under cachedir: <<function, argument>> -> result
    run,              \* number of the process running main
    args,             \* the parsed command line: [model, question]
    today,            \* datetime.date.today() of this process
    gpt_query_count,  \* the global counter of this process
    pc,               \* where main stands
    error,            \* the exception that ended main, "" while there is none
    search_text,      \* the completion of the topic-derivation prompt
    searches,         \* what the loop over json.loads(search_text) yields
    si,               \* index of the topic the loop over searches is at
    background,       \* the dict of main, as its sequence of items
    sources,          \* the list of (source, title)
    results,          \* ddg_top_hit: the list ddg returned
    ri,               \* ddg_top_hit: index of the result the loop is at
    fetched,          \* ddg_top_hit: the hrefs passed to fetch_url_and_extract_info so far
    subj,             \* shorten, summarize: index of the subject the loop is at
    stdout,           \* the lines main printed
    original,         \* history: background as it was handed to shorten
    shortened,        \* history: background as shorten returned it
    execs,            \* history: <<function, argument>> -> executions of the wrapped body
    producer,         \* history: <<"gpt", prompt>> -> model that gave the stored completion
    gpt_calls,        \* history: calls of gpt made by main in this process
    faults,           \* history: failures of the outside world so far
    last              \* history: the latest call through memory.cache

vars == <<cache, run, args, today, gpt_query_count, pc, error, search_text, searches, si,
          background, sources, results, ri, fetched, subj, stdout, original,
          shortened, execs, producer, gpt_calls, faults, last>>

\* Everything main itself holds, apart from pc and error.
locals == <<search_text, searches, si, background, sources, results, ri, fetched, subj,
            stdout, original, shortened>>

today_prompt == "Today is " \o strftime(today) \o "."

search_prompt ==
    today_prompt \o "\n\n" \o "I want to know: " \o args.question \o "\n\n"
    \o "What 3 search topics would help you answer this "
    \o "question? Answer in a JSON list only."

Ceiling == max_token_count[args.model]

(***************************************************************************)
(* memory.cache: the memoized-call layer.                                  *)
(***************************************************************************)
\* joblib keys an entry by the function and its call arguments.  gpt is
\* always called with the prompt alone, so its key never holds args.model.
Key(func, arg) == <<func, arg>>

\* A layer that never finds an entry.
CachedNever(func, arg) == FALSE

Cached(func, arg) == Key(func, arg) \in DOMAIN cache

Lookup(func, arg) == cache[Key(func, arg)]

\* A layer that does not write the (None, None) of a failed fetch.
StoredUnlessFailed(c, func, arg, result) ==
    IF func = "fetch_url_and_extract_info" /\ result = <<None, None>> THEN c
    ELSE (Key(func, arg) :> result) @@ c

\* The store c after the result of func(arg) is written to it.
Stored(c, func, arg, result) == (Key(func, arg) :> result) @@ c

\* A layer that stores an empty result when the body raised.
AfterRaiseStores(c, func, arg) == (Key(func, arg) :> "") @@ c

\* The store c after func(arg) raised: joblib writes nothing.
AfterRaise(c, func, arg) == c

Count(k) == IF k \in DOMAIN execs THEN execs[k] ELSE 0

\* execs after one more execution of the body of func(arg).
Bumped(func, arg) == (Key(func, arg) :> Count(Key(func, arg)) + 1) @@ execs

\* A call that misses the store: the wrapped body runs.
Executes(func, arg) ==
    /\ execs' = Bumped(func, arg)
    /\ last' = [func |-> func, arg |-> arg, hit |-> FALSE]

\* A call answered from the store: the wrapped body does not run.
MemoHit(func, arg) ==
    /\ UNCHANGED <<cache, execs>>
    /\ last' = [func |-> func, arg |-> arg, hit |-> TRUE]

(***************************************************************************)
(* gpt(prompt).  An outcome o of a call is what the caller gets: the       *)
(* stored completion on a hit; otherwise the body runs and the assertion,  *)
(* the API or a completion drawn from the candidates decides.              *)
(***************************************************************************)
GptOutcomes(prompt, candidates) ==
    IF Cached("gpt", prompt)
    THEN {[error |-> "", text |-> Lookup("gpt", prompt)]}
    ELSE IF ~(Len(prompt) > 25)
    THEN {[error |-> "AssertionError", text |-> ""]}
    ELSE (IF faults < MaxFaults THEN {[error |-> "APIError", text |-> ""]} ELSE {})
         \cup {[error |-> "", text |-> t] : t \in candidates}

\* A counter that also counts the calls answered from the store.
CountedAlways(n, ran) == n + 1

\* gpt_query_count += 1 stands in the wrapped body, after the assertion: the
\* counter n grows when that line is run.
Counted(n, ran) == IF ran THEN n + 1 ELSE n

gpt(prompt, o) ==
    /\ gpt_calls' = gpt_calls + 1
    /\ IF Cached("gpt", prompt)
       THEN /\ MemoHit("gpt", prompt)
            /\ gpt_query_count' = Counted(gpt_query_count, FALSE)
            /\ UNCHANGED <<faults, producer>>
       ELSE /\ Executes("gpt", prompt)
            /\ faults' = IF o.error = "APIError" THEN faults + 1 ELSE faults
            /\ gpt_query_count' = Counted(gpt_query_count, o.error # "AssertionError")
            /\ cache' = IF o.error # "" THEN AfterRaise(cache, "gpt", prompt)
                        ELSE Stored(cache, "gpt", prompt, o.text)
            /\ producer' = IF o.error # "" THEN producer
                           ELSE (Key("gpt", prompt) :> args.model) @@ producer

Abort(e) == pc' = "aborted" /\ error' = e

(***************************************************************************)
(* main, lines 126-132: derive the topics.                                 *)
(***************************************************************************)
DeriveTopics ==
    /\ pc = "derive"
    /\ \E o \in GptOutcomes(search_prompt, TopicResponses) :
          /\ gpt(search_prompt, o)
          /\ IF o.error # ""
             THEN Abort(o.error) /\ UNCHANGED search_text
             ELSE pc' = "parse" /\ search_text' = o.text /\ UNCHANGED error
    /\ UNCHANGED <<run, args, today, searches, si, background, sources, results, ri,
                   fetched, subj, stdout, original, shortened>>

\* The TypeError of iterating over an int and of unpacking None.
NotIterable == "TypeError: 'int' object is not iterable"
CannotUnpack == "TypeError: cannot unpack non-iterable NoneType object"

\* searches = json.loads(search_text), and the for statement taking iter(searches).
ParseTopics ==
    /\ pc = "parse"
    /\ LET v == json_loads(search_text) IN
          IF ~v.ok THEN Abort("JSONDecodeError") /\ UNCHANGED searches
          ELSE IF ~v.iterable THEN Abort(NotIterable) /\ UNCHANGED searches
          ELSE pc' = "resolve" /\ searches' = v.items /\ UNCHANGED error
    /\ UNCHANGED <<cache, run, args, today, gpt_query_count, search_text, si, background,
                   sources, results, ri, fetched, subj, stdout, original, shortened,
                   execs, producer, gpt_calls, faults, last>>

(***************************************************************************)
(* main, lines 135-138, and ddg_top_hit.                                   *)
(***************************************************************************)
\* ddg_top_hit falling off its loop returns None.  Its other results are
\* triples, which TLC cannot compare with the string None: its None is the
\* empty tuple.
NoResult == <<>>

\* source, title, content = <v>; background[search] = content;
\* sources.append((source, title)): unpacking None raises TypeError.
Unpack(v) ==
    IF v = NoResult
    THEN Abort(CannotUnpack) /\ UNCHANGED <<background, sources, si>>
    ELSE /\ background' = DictSet(background, searches[si], v[3])
         /\ sources' = Append(sources, <<v[1], v[2]>>)
         /\ si' = si + 1
         /\ pc' = "resolve"
         /\ UNCHANGED error

\* What results = ddg(topic) may do: return a list, or raise.
DdgOutcomes(topic) ==
    (IF faults < MaxFaults THEN {[raised |-> TRUE, list |-> <<>>]} ELSE {})
    \cup {[raised |-> FALSE, list |-> r] : r \in ResultListsFor(topic)}

\* The call ddg_top_hit(search): answered from the store, or the body starts
\* with results = ddg(topic), which may raise.
ResolveTopic ==
    /\ pc = "resolve"
    /\ si <= Len(searches)
    /\ LET topic == searches[si] IN
          IF Cached("ddg_top_hit", topic)
          THEN /\ MemoHit("ddg_top_hit", topic)
               /\ Unpack(Lookup("ddg_top_hit", topic))
               /\ UNCHANGED <<results, ri, fetched, faults>>
          ELSE /\ Executes("ddg_top_hit", topic)
               /\ \E r \in DdgOutcomes(topic) :
                     IF ~r.raised
                     THEN /\ results' = r.list /\ ri' = 1 /\ fetched' = <<>>
                          /\ pc' = "ddg_top_hit"
                          /\ cache' = cache
                          /\ UNCHANGED <<error, faults>>
                     ELSE /\ Abort("DuckDuckGoSearchException")
                          /\ faults' = faults + 1
                          /\ cache' = AfterRaise(cache, "ddg_top_hit", topic)
                          /\ UNCHANGED <<results, ri, fetched>>
               /\ UNCHANGED <<background, sources, si>>
    /\ UNCHANGED <<run, args, today, gpt_query_count, search_text, searches, subj, stdout,
                   original, shortened, gpt_calls, producer>>

\* What fetch_url_and_extract_info returns after a status other than 200
\* or an exception.
Sentinel == <<None, None>>

\* What fetch_url_and_extract_info(url) may return when its body runs: the
\* page, or (None, None) after a status other than 200 or an exception.
FetchOutcomes(url) ==
    (IF faults < MaxFaults THEN {Sentinel} ELSE {}) \cup {Page(url)}

\* A test for None alone, which lets the empty text through.
IsHitUnlessNone(content) == content # None

\* A test that takes every content, None included, for a hit.
IsHitAlways(content) == TRUE

\* if content:
IsHit(content) == Truthy(content)

\* One pass of the loop of ddg_top_hit: fetch results[ri] and return the
\* triple if the content is truthy.
FetchResult ==
    /\ pc = "ddg_top_hit"
    /\ ri <= Len(results)
    /\ LET url == results[ri].href
           topic == searches[si]
       IN \E v \in (IF Cached("fetch_url_and_extract_info", url)
                    THEN {Lookup("fetch_url_and_extract_info", url)}
                    ELSE FetchOutcomes(url)) :
             LET hit == Cached("fetch_url_and_extract_info", url)
                 c1 == IF hit THEN cache
                       ELSE Stored(cache, "fetch_url_and_extract_info", url, v)
             IN /\ execs' = IF hit THEN execs ELSE Bumped("fetch_url_and_extract_info", url)
                /\ UNCHANGED producer
                /\ last' = [func |-> "fetch_url_and_extract_info", arg |-> url, hit |-> hit]
                /\ faults' = IF ~hit /\ v = Sentinel THEN faults + 1 ELSE faults
                /\ fetched' = Append(fetched, url)
                /\ IF IsHit(v[2])
                   THEN /\ cache' = Stored(c1, "ddg_top_hit", topic, <<url, v[1], v[2]>>)
                        /\ Unpack(<<url, v[1], v[2]>>)
                        /\ UNCHANGED ri
                   ELSE /\ cache' = c1
                        /\ ri' = ri + 1
                        /\ UNCHANGED <<pc, error, background, sources, si>>
    /\ UNCHANGED <<run, args, today, gpt_query_count, search_text, searches, results, subj,
                   stdout, original, shortened, gpt_calls>>

\* The loop of ddg_top_hit is exhausted: the function returns None.
NoHit ==
    /\ pc = "ddg_top_hit"
    /\ ri > Len(results)
    /\ cache' = Stored(cache, "ddg_top_hit", searches[si], NoResult)
    /\ Unpack(NoResult)
    /\ UNCHANGED <<run, args, today, gpt_query_count, search_text, searches, results, ri,
                   fetched, subj, stdout, original, shortened, execs, producer, gpt_calls, faults, last>>

\* The loop over searches is exhausted: main calls shorten(background).
ResolveDone ==
    /\ pc = "resolve"
    /\ si > Len(searches)
    /\ pc' = "shorten"
    /\ subj' = 1
    /\ original' = background
    /\ UNCHANGED <<cache, run, args, today, gpt_query_count, error, search_text, searches,
                   si, background, sources, results, ri, fetched, stdout, shortened, execs, producer,
                   gpt_calls, faults, last>>

(***************************************************************************)
(* shorten(background).                                                    *)
(***************************************************************************)
\* Cut keeping the end of the text instead of its start.
CutKeepsTail(text) ==
    SubSeq(text, Len(text) - ((Len(text) * 9) \div 10) + 1, Len(text))

\* Cut with a ratio that rounds back to the whole length.
CutKeepsAll(text) == Prefix(text, (Len(text) * 10) \div 10)

\* text[:int(len(text) * .9)]: the float product n * .9 truncates to
\* floor(9n / 10) for every length a text can have.
Cut(text) == Prefix(text, (Len(text) * 9) \div 10)

\* A loop test that never finds a text too long.
TooLongNever(text) == FALSE

TooLong(text) == token_count(text) > Ceiling

\* One pass of the while loop on the subject at subj.
ShortenPass ==
    /\ pc = "shorten"
    /\ subj <= Len(background)
    /\ Truthy(background[subj].contents)
    /\ TooLong(background[subj].contents)
    /\ background' = [background EXCEPT ![subj].contents = Cut(@)]
    /\ UNCHANGED <<cache, run, args, today, gpt_query_count, pc, error, search_text,
                   searches, si, sources, results, ri, fetched, subj, stdout, original,
                   shortened, execs, producer, gpt_calls, faults, last>>

\* The subject at subj is skipped (falsy contents) or its loop has ended.
ShortenNext ==
    /\ pc = "shorten"
    /\ subj <= Len(background)
    /\ ~Truthy(background[subj].contents) \/ ~TooLong(background[subj].contents)
    /\ subj' = subj + 1
    /\ UNCHANGED <<cache, run, args, today, gpt_query_count, pc, error, search_text,
                   searches, si, background, sources, results, ri, fetched, stdout,
                   original, shortened, execs, producer, gpt_calls, faults, last>>

\* shorten returns; main calls summarize(background).
ShortenReturn ==
    /\ pc = "shorten"
    /\ subj > Len(background)
    /\ pc' = "summarize"
    /\ subj' = 1
    /\ shortened' = background
    /\ UNCHANGED <<cache, run, args, today, gpt_query_count, error, search_text, searches,
                   si, background, sources, results, ri, fetched, stdout, original, execs, producer,
                   gpt_calls, faults, last>>

(***************************************************************************)
(* summarize(background).                                                  *)
(***************************************************************************)
\* A size test that never finds the background small enough.
FitsNever(bg) == FALSE

Fits(bg) == token_count(background_text(bg)) <= Ceiling

summarize_prompt(item) ==
    "Concisely summarize the facts about " \o item.subject \o ":\n" \o item.contents

\* A loop that stays on the subject it has just handled.
SameSubject(i) == i

\* for subject in background: the iterator moves to the next key.
NextSubject(i) == i + 1

\* One pass of the for loop: skip a falsy subject, return if the whole
\* background fits, else replace the contents by gpt's summary.
SummarizeStep ==
    /\ pc = "summarize"
    /\ subj <= Len(background)
    /\ IF ~Truthy(background[subj].contents)
       THEN /\ subj' = NextSubject(subj)
            /\ UNCHANGED <<cache, gpt_query_count, pc, error, background, execs, producer, gpt_calls,
                           faults, last>>
       ELSE IF Fits(background)
       THEN /\ pc' = "answer"
            /\ UNCHANGED <<cache, gpt_query_count, error, background, subj, execs, producer,
                           gpt_calls, faults, last>>
       ELSE \E o \in GptOutcomes(summarize_prompt(background[subj]),
                                 Summaries(background[subj].contents)) :
               /\ gpt(summarize_prompt(background[subj]), o)
               /\ IF o.error # ""
                  THEN Abort(o.error) /\ UNCHANGED <<background, subj>>
                  ELSE /\ background' = [background EXCEPT ![subj].contents = o.text]
                       /\ subj' = NextSubject(subj)
                       /\ UNCHANGED <<pc, error>>
    /\ UNCHANGED <<run, args, today, search_text, searches, si, sources, results, ri,
                   fetched, stdout, original, shortened>>

\* The for loop is exhausted: summarize returns.
SummarizeReturn ==
    /\ pc = "summarize"
    /\ subj > Len(background)
    /\ pc' = "answer"
    /\ UNCHANGED <<cache, run, args, today, gpt_query_count, error, search_text, searches,
                   si, background, sources, results, ri, fetched, subj, stdout, original,
                   shortened, execs, producer, gpt_calls, faults, last>>

(***************************************************************************)
(* main, lines 148-155: the final answer and the report.                   *)
(***************************************************************************)
\* A final prompt that leaves the date line out.
AnswerPromptWithoutDate == background_text(background) \o "\n\n" \o args.question

answer_prompt ==
    background_text(background) \o "\n\n" \o today_prompt \o "\n\n" \o args.question

Answer ==
    /\ pc = "answer"
    /\ \E o \in GptOutcomes(answer_prompt, Answers) :
          /\ gpt(answer_prompt, o)
          /\ IF o.error # ""
             THEN Abort(o.error) /\ UNCHANGED stdout
             ELSE pc' = "report" /\ stdout' = Append(stdout, o.text) /\ UNCHANGED error
    /\ UNCHANGED <<run, args, today, search_text, searches, si, background, sources,
                   results, ri, fetched, subj, original, shortened>>

citation(entry) == "* [" \o Str(entry[2]) \o "](" \o Str(entry[1]) \o ")"

Report ==
    /\ pc = "report"
    /\ stdout' = stdout
                 \o << "(" \o args.model \o ", " \o ToStr(gpt_query_count) \o " queries)",
                       "",
                       "Sources:" >>
                 \o [k \in 1..Len(sources) |-> citation(sources[k])]
    /\ pc' = "done"
    /\ UNCHANGED <<cache, run, args, today, gpt_query_count, error, search_text, searches,
                   si, background, sources, results, ri, fetched, subj, original, shortened,
                   execs, producer, gpt_calls, faults, last>>

(***************************************************************************)
(* A process.  The store under cachedir outlives it; nothing else does.    *)
(***************************************************************************)
NoCall == [func |-> "", arg |-> "", hit |-> FALSE]

ProcessStart ==
    /\ gpt_query_count = 0
    /\ pc = "derive"
    /\ error = ""
    /\ search_text = ""
    /\ searches = <<>>
    /\ si = 1
    /\ background = <<>>
    /\ sources = <<>>
    /\ results = <<>>
    /\ ri = 1
    /\ fetched = <<>>
    /\ subj = 1
    /\ stdout = <<>>
    /\ original = <<>>
    /\ shortened = <<>>
    /\ gpt_calls = 0
    /\ last = NoCall

Init ==
    /\ cache = <<>>
    /\ execs = <<>>
    /\ producer = <<>>
    /\ faults = 0
    /\ run = 1
    /\ args \in [model : Models, question : Questions]
    /\ today \in Dates
    /\ ProcessStart

\* The process has ended and the program is run again.
Restart ==
    /\ pc \in {"done", "aborted"}
    /\ run < MaxRuns
    /\ run' = run + 1
    /\ args' \in [model : Models, question : Questions]
    /\ today' \in Dates
    /\ gpt_query_count' = 0
    /\ pc' = "derive"
    /\ error' = ""
    /\ search_text' = ""
    /\ searches' = <<>>
    /\ si' = 1
    /\ background' = <<>>
    /\ sources' = <<>>
    /\ results' = <<>>
    /\ ri' = 1
    /\ fetched' = <<>>
    /\ subj' = 1
    /\ stdout' = <<>>
    /\ original' = <<>>
    /\ shortened' = <<>>
    /\ gpt_calls' = 0
    /\ last' = NoCall
    /\ UNCHANGED <<cache, execs, producer, faults>>

Next ==
    \/ DeriveTopics
    \/ ParseTopics
    \/ ResolveTopic
    \/ FetchResult
    \/ NoHit
    \/ ResolveDone
    \/ ShortenPass
    \/ ShortenNext
    \/ ShortenReturn
    \/ SummarizeStep
    \/ SummarizeReturn
    \/ Answer
    \/ Report
    \/ Restart

Spec == Init /\ [][Next]_vars

(***************************************************************************)
(* The context reducer on its own: shorten(background) followed by         *)
(* summarize(background), called on any background of up to three          *)
(* subjects, whose contents may also be None, empty or one character.      *)
(***************************************************************************)
ReducerTexts == {None, "", "x", TinyText, MidText, LongText}

ReducerSubjects == <<"a", "b", "c">>

ReducerBackgrounds ==
    UNION { { [k \in 1..n |-> [subject |-> ReducerSubjects[k], contents |-> f[k]]] :
              f \in [1..n -> ReducerTexts] } : n \in 0..Len(ReducerSubjects) }

ReducerInit ==
    /\ cache = <<>>
    /\ execs = <<>>
    /\ producer = <<>>
    /\ faults = 0
    /\ run = 1
    /\ args \in [model : Models, question : Questions]
    /\ today \in Dates
    /\ gpt_query_count = 0
    /\ pc = "shorten"
    /\ error = ""
    /\ search_text = ""
    /\ background \in ReducerBackgrounds
    /\ searches = [k \in 1..Len(background) |-> background[k].subject]
    /\ si = Len(background) + 1
    /\ sources = <<>>
    /\ results = <<>>
    /\ ri = 1
    /\ fetched = <<>>
    /\ subj = 1
    /\ stdout = <<>>
    /\ original = background
    /\ shortened = <<>>
    /\ gpt_calls = 0
    /\ last = NoCall

ReducerNext ==
    \/ ShortenPass
    \/ ShortenNext
    \/ ShortenReturn
    \/ SummarizeStep
    \/ SummarizeReturn

ReducerSpec == ReducerInit /\ [][ReducerNext]_vars

\* The steps of shorten are plain computation: once called it keeps running.
FairReducerSpec == ReducerSpec /\ WF_vars(ShortenPass \/ ShortenNext \/ ShortenReturn)

\* The steps of summarize are plain computation too, and a call of gpt ends
\* by returning or raising: once called, summarize keeps running as well.
FairSummarizeSpec ==
    FairReducerSpec /\ WF_vars(SummarizeStep \/ SummarizeReturn)

(***************************************************************************)
(* The prompts on their own: the reducer and the final-answer call, run    *)
(* on any of the backgrounds above or on one whose subject is the empty    *)
(* string, for a question that may be empty.                               *)
(***************************************************************************)
PromptQuestions == Questions \cup {""}

PromptBackgrounds ==
    ReducerBackgrounds \cup {<<[subject |-> "", contents |-> LongText]>>}

PromptInit ==
    /\ cache = <<>>
    /\ execs = <<>>
    /\ producer = <<>>
    /\ faults = 0
    /\ run = 1
    /\ args \in [model : Models, question : PromptQuestions]
    /\ today \in Dates
    /\ gpt_query_count = 0
    /\ pc = "shorten"
    /\ error = ""
    /\ search_text = ""
    /\ background \in PromptBackgrounds
    /\ searches = [k \in 1..Len(background) |-> background[k].subject]
    /\ si = Len(background) + 1
    /\ sources = <<>>
    /\ results = <<>>
    /\ ri = 1
    /\ fetched = <<>>
    /\ subj = 1
    /\ stdout = <<>>
    /\ original = background
    /\ shortened = <<>>
    /\ gpt_calls = 0
    /\ last = NoCall

PromptNext ==
    \/ ShortenPass
    \/ ShortenNext
    \/ ShortenReturn
    \/ SummarizeStep
    \/ SummarizeReturn
    \/ Answer

PromptSpec == PromptInit /\ [][PromptNext]_vars

(***************************************************************************)
(* Properties.                                                             *)
(***************************************************************************)
\* The context reducer has returned and main is about to make, or has made,
\* the final-answer call on background.
Reduced == pc \in {"answer", "report", "done"}

\* No summary is longer than the text it replaced (each subject is
\* summarized at most once, from its contents as shorten returned them).
NonIncreasing ==
    /\ Len(background) = Len(shortened)
    /\ \A k \in 1..Len(background) :
          Len(background[k].contents) <= Len(shortened[k].contents)

\* C1: after shorten and summarize, whenever no summary was longer than
\* its input, the token estimate of the serialized background is at most
\* the ceiling of the active model, so the final-answer call never gets
\* more than the ceiling.
C1_CombinedSizeInvariant == (Reduced /\ NonIncreasing) => Fits(background)

\* n is reached from n0 by repeating n -> int(0.9 * n).
RECURSIVE IsCutLength(_, _)
IsCutLength(n, n0) ==
    IF n = n0 THEN TRUE
    ELSE IF n0 = 0 THEN FALSE
    ELSE IsCutLength(n, (n0 * 9) \div 10)

\* C2: once shorten has returned, every subject whose text was non-empty
\* holds a prefix of its original text, of a length reached from the
\* original length by cuts to int(0.9 * length), whose own token estimate
\* is at most the ceiling.
C2_ShortenKeepsPrefixUnderCeiling ==
    shortened # <<>> =>
        /\ Len(shortened) = Len(original)
        /\ \A k \in 1..Len(shortened) :
              /\ shortened[k].subject = original[k].subject
              /\ Truthy(original[k].contents) =>
                    /\ IsPrefix(shortened[k].contents, original[k].contents)
                    /\ IsCutLength(Len(shortened[k].contents), Len(original[k].contents))
                    /\ token_count(shortened[k].contents) <= Ceiling

\* shorten returned a background in which a text was truncated.
C2_Witness ==
    /\ shortened # <<>>
    /\ \E k \in 1..Len(shortened) :
          /\ shortened[k].contents # original[k].contents
          /\ Len(shortened[k].contents) > 0

\* C3: every pass of the while loop of shorten makes the text strictly
\* shorter, a cut of a text of any length from 1 up is strictly shorter
\* than the text, and shorten, once called, returns.
C3_ShortenTerminates ==
    /\ [](\A n \in 1..Len(LongText) : Len(Cut(Prefix(LongText, n))) < n)
    /\ [][ShortenPass =>
             Len(background'[subj].contents) < Len(background[subj].contents)]_vars
    /\ (pc = "shorten") ~> (pc # "shorten")

\* shorten has returned after cutting a text twice or more.
C3_Witness ==
    /\ pc = "summarize"
    /\ \E k \in 1..Len(shortened) :
          /\ Truthy(original[k].contents)
          /\ Len(shortened[k].contents) < (Len(original[k].contents) * 9) \div 10

\* The latest step was a call through memory.cache.
IsCall == last' # last /\ last'.func # ""

\* C4: once the result of a call is in the store, every later call with the
\* same function and arguments, in this process or a later one, is answered
\* from the store: the entry stays as it is and the wrapped body is not
\* executed again.
C4_CacheIdempotence ==
    [][/\ \A k \in DOMAIN cache :
             k \in DOMAIN cache' /\ cache'[k] = cache[k] /\ execs'[k] = execs[k]
       /\ (IsCall /\ Cached(last'.func, last'.arg)) => last'.hit]_vars

\* A later process had its topic-derivation call answered from the store.
C4_Witness == run = 2 /\ pc = "parse" /\ last.func = "gpt" /\ last.hit

\* The exceptions a wrapped body raises.
WrappedErrors == {"APIError", "AssertionError", "DuckDuckGoSearchException"}

\* C5: a call whose wrapped body raises leaves the store as it was, with no
\* entry for its key, and a call whose key is not in the store executes
\* the body.
C5_FailureNotCached ==
    [][IsCall =>
          LET k == Key(last'.func, last'.arg) IN
             /\ (error = "" /\ error' \in WrappedErrors) =>
                   (cache' = cache /\ k \notin DOMAIN cache')
             /\ k \notin DOMAIN cache => (~last'.hit /\ execs'[k] = Count(k) + 1)]_vars

\* A call that raised in one process was executed again, and stored, in the next.
C5_Witness == \E k \in DOMAIN execs : execs[k] >= 2 /\ k \in DOMAIN cache

Unresolvable(topic) ==
    Cached("ddg_top_hit", topic) /\ Lookup("ddg_top_hit", topic) = NoResult

\* C6: when no topic can be resolved the run does not abort on that
\* account: it goes on to the final-answer call with every topic mapped to
\* empty or absent text.
C6_UnresolvableTopicsDoNotAbort ==
    ~( /\ pc = "aborted"
       /\ error = CannotUnpack
       /\ \A i \in 1..si : Unresolvable(searches[i]) )

\* The loop over searches in main has been left, at its end or by the
\* exception of unpacking a resolver result.
ResolveOver ==
    \/ pc \in {"shorten", "summarize", "answer", "report", "done"}
    \/ pc = "aborted" /\ error = CannotUnpack

\* C7: after the resolve step sources holds one entry per derived topic, in
\* topic order, entry i being the (source, title) the resolver gave for
\* topic i, and background has a key for every derived topic.
C7_TopicSourceCorrespondence ==
    ResolveOver =>
        /\ Len(sources) = Len(searches)
        /\ \A i \in 1..Len(searches) :
              /\ HasKey(background, searches[i])
              /\ Cached("ddg_top_hit", searches[i])
              /\ Unresolvable(searches[i]) \/
                    sources[i] = <<Lookup("ddg_top_hit", searches[i])[1],
                                   Lookup("ddg_top_hit", searches[i])[2]>>

\* The text fetch_url_and_extract_info gave for a URL it was called with.
FetchedText(url) == Lookup("fetch_url_and_extract_info", url)[2]

NonEmpty(text) == text # None /\ text # ""

\* C8: ddg_top_hit fetches the results in the order ddg returned them,
\* every result fetched before the latest one had empty text, nothing is
\* fetched after a result with non-empty text, and a triple it returns is
\* that of a fetched result with non-empty text.
C8_FirstHitPolicy ==
    /\ Len(fetched) <= Len(results)
    /\ \A k \in 1..Len(fetched) :
          /\ fetched[k] = results[k].href
          /\ k < Len(fetched) => ~NonEmpty(FetchedText(fetched[k]))
    /\ pc = "ddg_top_hit" =>
          /\ Len(fetched) = ri - 1
          /\ \A k \in 1..Len(fetched) : ~NonEmpty(FetchedText(fetched[k]))
    /\ \A k \in DOMAIN cache :
          (k[1] = "ddg_top_hit" /\ cache[k] # NoResult) =>
              /\ NonEmpty(cache[k][3])
              /\ Lookup("fetch_url_and_extract_info", cache[k][1])
                     = <<cache[k][2], cache[k][3]>>

\* R1 had empty text, R2 had text and was returned, R3 was never fetched.
C8_Witness ==
    /\ pc = "resolve"
    /\ Len(results) = 3
    /\ fetched = <<"u1", "u2">>
    /\ Len(sources) > 0
    /\ sources[Len(sources)][1] = "u2"

\* C9: a run makes at most 5 calls of the language model.
C9_AtMostFiveQueries == gpt_calls <= 5 /\ gpt_query_count <= 5

\* C10: when the topic-derivation completion is not a JSON list the run
\* has aborted right after it: one gpt call, no search, no fetch, nothing
\* printed.
C10_ParseFailureAborts ==
    (pc \notin {"derive", "parse"} /\ json_loads(search_text).kind # "list") =>
        /\ pc = "aborted"
        /\ gpt_calls = 1
        /\ last.func = "gpt"
        /\ fetched = <<>>
        /\ stdout = <<>>

\* The latest step was a call of fetch_url_and_extract_info that gave the
\* sentinel, from a failed request or from the store.
GaveSentinel ==
    /\ IsCall
    /\ last'.func = "fetch_url_and_extract_info"
    /\ cache'[Key("fetch_url_and_extract_info", last'.arg)] = Sentinel

\* C11: a fetch that fails yields (None, None) and raises nothing; the
\* resolver takes the candidate for one without text: it returns no triple,
\* main gets no exception, background and sources are untouched, and the
\* loop moves on to the next result of the list.
C11_FetchFailureSwallowed ==
    [][/\ (IsCall /\ last'.func = "fetch_url_and_extract_info" /\ faults' > faults) =>
             cache'[Key("fetch_url_and_extract_info", last'.arg)] = Sentinel
       /\ GaveSentinel =>
             /\ pc = "ddg_top_hit" /\ pc' = "ddg_top_hit"
             /\ error' = "" /\ error = ""
             /\ last'.arg = results[ri].href
             /\ ri' = ri + 1
             /\ fetched' = Append(fetched, results[ri].href)
             /\ ~Cached("ddg_top_hit", searches[si])'
             /\ UNCHANGED <<background, sources, si, results>>]_vars

\* The fetch of a result failed and the resolver went on to fetch the next one.
C11_Witness ==
    /\ error = ""
    /\ \E k \in 1..(Len(fetched) - 1) :
          /\ Cached("fetch_url_and_extract_info", fetched[k])
          /\ Lookup("fetch_url_and_extract_info", fetched[k]) = Sentinel
          /\ fetched[k + 1] = results[k + 1].href

\* The lines main printed after the line "Sources:".
CitationLines == SubSeq(stdout, 5, Len(stdout))

\* An entry of sources with a title and an origin.
Citable(entry) == Truthy(entry[1]) /\ Truthy(entry[2])

CitableSources == SelectSeq(sources, Citable)

\* C12: the report prints, in topic order, one citation line for every
\* entry of sources that has a title and an origin, and no line for an
\* entry whose title or origin is missing.
C12_ReportSkipsUntitled ==
    pc = "done" =>
        /\ stdout[4] = "Sources:"
        /\ CitationLines = [k \in 1..Len(CitableSources) |-> citation(CitableSources[k])]

\* main has left the loop over searches and called the context reducer.
Resolved == pc \in {"shorten", "summarize", "answer", "report", "done"}

\* The background, as it was handed to shorten, is within the ceiling.
UnderBudget == token_count(background_text(original)) <= Ceiling

\* C13: when the serialized background is within the ceiling after the
\* resolve step, shorten and summarize leave it as it is, no summarization
\* call is made and the run makes exactly 2 calls of gpt (1 before the
\* final-answer call); and summarize never calls gpt at a moment when the
\* serialized background is within the ceiling.
C13_ReductionNoOpUnderBudget ==
    /\ []((Resolved /\ UnderBudget) =>
             /\ background = original
             /\ pc \in {"shorten", "summarize", "answer"} => gpt_calls = 1
             /\ pc \in {"report", "done"} => gpt_calls = 2)
    /\ [][(pc = "summarize" /\ gpt_calls' # gpt_calls) =>
             token_count(background_text(background)) > Ceiling]_vars

\* A run with a resolved topic, within the ceiling from the start, has ended.
C13_Witness ==
    /\ pc = "done"
    /\ UnderBudget
    /\ Len(original) > 0
    /\ background = original
    /\ gpt_calls = 2

\* The text of a topic is empty or absent.
Absent(text) == text \in {None, ""}

Subjects(bg) == [k \in 1..Len(bg) |-> bg[k].subject]

\* A step of shorten or summarize keeps the keys and their order, leaves
\* every empty or absent text as it is, and calls gpt only to summarize the
\* topic at hand, whose text is neither empty nor absent.
ReductionStepSkipsEmpty ==
    pc \in {"shorten", "summarize"} =>
        /\ Subjects(background') = Subjects(background)
        /\ \A k \in 1..Len(background) :
              Absent(background[k].contents) =>
                  background'[k].contents = background[k].contents
        /\ (gpt_calls' # gpt_calls) =>
              /\ ~Absent(background[subj].contents)
              /\ last'.func = "gpt"
              /\ last'.arg = summarize_prompt(background[subj])

\* C14: shorten and summarize keep the keys of background and their order;
\* a topic whose text is empty or absent keeps that value in every step of
\* both phases, and every call of gpt they make is the summarization of the
\* topic at hand, whose text is neither empty nor absent.
C14_ReductionKeepsKeysAndSkipsEmpty ==
    /\ [](pc \in {"shorten", "summarize", "answer"} =>
             /\ Subjects(background) = Subjects(original)
             /\ \A k \in 1..Len(original) :
                   Absent(original[k].contents) =>
                       background[k].contents = original[k].contents)
    /\ [][ReductionStepSkipsEmpty]_vars

\* Both phases have run on a background with an absent text, an empty text
\* and a text that was summarized.
C14_Witness ==
    /\ pc = "answer"
    /\ \E i, j, k \in 1..Len(original) :
          /\ original[i].contents = None /\ background[i].contents = None
          /\ original[j].contents = "" /\ background[j].contents = ""
          /\ background[k].contents = "sum"

\* The latest step was a call of gpt made by summarize.
SummarizationCall == pc = "summarize" /\ gpt_calls' # gpt_calls

\* A summarization call is made on the text shorten returned for the
\* subject at hand, whose token estimate is within the ceiling, and the
\* loop then moves to the next subject unless the call raised; the loop of
\* summarize never moves back.
SummarizesShortenedBlock ==
    /\ SummarizationCall =>
          /\ shortened # <<>>
          /\ background[subj].contents = shortened[subj].contents
          /\ token_count(background[subj].contents) <= Ceiling
          /\ last'.arg = summarize_prompt(shortened[subj])
          /\ subj' = subj + 1 \/ pc' = "aborted"
    /\ pc = "summarize" => subj' >= subj

\* C15: shorten has returned before summarize makes its first call, every
\* text passed to a summarization call is the one shorten returned for its
\* subject, with a token estimate within the ceiling, and the calls are
\* made in the order of the keys of background.
C15_SummarizedBlocksUnderCeiling == [][SummarizesShortenedBlock]_vars

\* Two subjects were summarized one after the other, the first from a text
\* that shorten had truncated.
C15_Witness ==
    /\ pc = "answer"
    /\ \E i, j \in 1..Len(background) :
          /\ i < j
          /\ background[i].contents = "sum" /\ background[j].contents = "sum"
          /\ shortened[i].contents # original[i].contents

\* The latest step executed the wrapped body of gpt.
GptExecuted ==
    \E k \in DOMAIN execs' : k[1] = "gpt" /\ execs'[k] # Count(k)

\* The counter starts a process at 0 and grows by one in exactly the steps
\* that execute the body of gpt.
CountsExecutions ==
    IF run' # run THEN gpt_query_count' = 0
    ELSE gpt_query_count' = gpt_query_count + (IF GptExecuted THEN 1 ELSE 0)

\* The line main prints after the answer.
Trailer(n) == "(" \o args.model \o ", " \o ToStr(n) \o " queries)"

\* C16: the count main reports is the number of executions of the body of
\* gpt in this process: it is 0 when the process starts, grows by one with
\* every execution and with nothing else (a call answered from the store
\* leaves it alone), and is what the trailer line shows.
C16_CountIsExecutions ==
    /\ [](/\ pc = "derive" => gpt_query_count = 0
          /\ gpt_query_count <= gpt_calls
          /\ pc = "done" => stdout[2] = Trailer(gpt_query_count))
    /\ [][CountsExecutions]_vars

\* A later process had every gpt call answered from the store and reported
\* 0 queries.
C16_Witness ==
    /\ run = 2
    /\ pc = "done"
    /\ gpt_calls >= 2
    /\ stdout[2] = Trailer(0)

\* A step of summarize either moves to the next key and stays in the loop,
\* or leaves the loop (by returning or by an exception) where it stands;
\* a step that calls gpt moves on unless the call raised.
OnePassStep ==
    pc = "summarize" =>
        /\ \/ pc' = "summarize" /\ subj' = subj + 1
           \/ pc' \in {"answer", "aborted"} /\ subj' = subj
        /\ (gpt_calls' # gpt_calls) => (subj' = subj + 1 \/ pc' = "aborted")

\* C17: summarize, once called, returns or raises, whatever the summaries
\* are (shorter than the text, equal to it or longer); its loop passes once
\* over the keys, each step moving to the next key or leaving the loop, so
\* the calls made are never more than the keys passed and each topic is
\* summarized at most once.
C17_SummarizeTerminates ==
    /\ (pc = "summarize") ~> (pc \in {"answer", "aborted"})
    /\ [][OnePassStep]_vars
    /\ [](/\ pc = "summarize" => (subj <= Len(background) + 1 /\ gpt_calls <= subj - 1)
          /\ pc = "answer" => gpt_calls <= Len(background))

\* summarize returned after summarizing every one of three topics, one of
\* them by a summary longer than its text.
C17_Witness ==
    /\ pc = "answer"
    /\ gpt_calls = 3
    /\ \E k \in 1..Len(background) :
          Len(background[k].contents) > Len(shortened[k].contents)

\* C18: a completion gpt hands to a run whose model is M was produced by
\* model M, also when it comes from the store.
C18_ResultsFromActiveModel ==
    (last.func = "gpt" /\ Cached("gpt", last.arg)) =>
        producer[Key("gpt", last.arg)] = args.model

\* The store holds the sentinel of a failed fetch, or the None of a
\* resolver that found no result with text, under the key k.
HoldsFailure(c, k) ==
    /\ k \in DOMAIN c
    /\ \/ k[1] = "fetch_url_and_extract_info" /\ c[k] = Sentinel
       \/ k[1] = "ddg_top_hit" /\ c[k] = NoResult

\* A fetch that fails and a resolver that finds nothing write their result
\* to the store; such an entry stays as it is, its body is not executed
\* again, and a call on its key is answered from the store.
FailureStaysCached ==
    /\ (IsCall /\ last'.func = "fetch_url_and_extract_info" /\ faults' > faults) =>
          HoldsFailure(cache', Key(last'.func, last'.arg))
    /\ (pc = "ddg_top_hit" /\ ri > Len(results) /\ pc' # pc) =>
          HoldsFailure(cache', Key("ddg_top_hit", searches[si]))
    /\ \A k \in DOMAIN cache :
          HoldsFailure(cache, k) =>
              /\ HoldsFailure(cache', k)
              /\ execs'[k] = execs[k]
              /\ (IsCall /\ Key(last'.func, last'.arg) = k) => last'.hit

\* C19: the (None, None) of a failed fetch and the None of a resolver that
\* found nothing are stored like any result: every later call with the same
\* URL or topic, in this process or a later one, gets the stored value and
\* makes no new request or search.
C19_FailuresAreCached == [][FailureStaysCached]_vars

\* A later process got the stored None of a topic, and in the store the
\* fetch of u1 failed once and was executed once although two topics were
\* resolved through the list it heads.
C19_Witness ==
    /\ run = 2
    /\ last.func = "ddg_top_hit" /\ last.hit
    /\ Lookup("ddg_top_hit", last.arg) = NoResult
    /\ HoldsFailure(cache, Key("fetch_url_and_extract_info", "u1"))
    /\ execs[Key("fetch_url_and_extract_info", "u1")] = 1
    /\ \A t \in {"a", "b"} :
          /\ Cached("ddg_top_hit", t)
          /\ Lookup("ddg_top_hit", t) # NoResult
          /\ Lookup("ddg_top_hit", t)[1] = "u2"

\* C20: no call of gpt fails the assertion len(prompt) > 25: the
\* topic-derivation prompt, the final-answer prompt and the summarization
\* prompt of every text are longer than 25 characters, for an empty
\* question, an empty topic and an empty background too.
C20_PromptLongerThan25 ==
    /\ error # "AssertionError"
    /\ Len(search_prompt) > 25
    /\ Len(answer_prompt) > 25
    /\ \A k \in 1..Len(background) :
          background[k].contents # None => Len(summarize_prompt(background[k])) > 25
    /\ last.func = "gpt" => Len(last.arg) > 25

\* The final-answer call was made, and returned, with an empty question and
\* an empty background.
C20_Witness ==
    /\ pc = "report"
    /\ args.question = ""
    /\ background = <<>>
    /\ last.func = "gpt"
    /\ last.arg = "\n\n" \o today_prompt \o "\n\n"
    /\ error = ""

====
